---- MODULE Spec2Model ----
(***************************************************************************)
(* State-machine model of src/sam/mod.rs: the SAM writer (SAMHeaderView,   *)
(* SAMWriter::new / from_path / from_stdout / write, Drop for SAMWriter)   *)
(* and the BAM -> SAM filter pipeline SAMWriter::from_bam_with_filter.     *)
(*                                                                         *)
(* Two callers are modelled: the pipeline itself (entry = "pipeline") and  *)
(* a client that uses the public writer API directly (entry = "direct").   *)
(* The native library (hts_open, sam_hdr_write, sam_write1, hts_close) and *)
(* the bam::Reader are the environment: their results are chosen           *)
(* nondeterministically from the values their C signatures allow.          *)
(***************************************************************************)
EXTENDS Integers, Sequences, FiniteSets, TLC

----------------------------------------------------------------------------
(* Bounds of the model *)

MaxLen == 3          \* longest input stream (number of records)
MaxRec == 2          \* number of distinct record values
MaxWrites == 2       \* most records a direct client writes
MaxNegRet == 2       \* sam_write1 results range over -MaxNegRet..1

----------------------------------------------------------------------------
(* Values *)

\* an item of bam_reader.records() whose is_err() holds
DecodeErr == 0
Records == 1..MaxRec
Items == Records \cup {DecodeErr}

\* the three results of the predicate f
Keep == "Some(true)"
Discard == "Some(false)"
Stop == "None"
Outcomes == {Keep, Discard, Stop}

\* int results of sam_write1: negative on failure, otherwise non-negative
Rets == (0 - MaxNegRet)..1
\* int results of sam_hdr_write: -1 on failure, 0 on success
HdrRets == {-1, 0}

\* the sentinel for standard input / standard output
Stdio == "-"
\* a path whose to_str() is None
NonText == "<not unicode>"
InPaths == {Stdio, "in.bam"}
OutPaths == {Stdio, "out.sam"}

IOError == "IOError"
WriteError == "WriteError"
Ok == "Ok"

----------------------------------------------------------------------------
(* Native heap: the header instances allocated by the library and malloc *)

EmptyHeap == [objs |-> {}, next |-> 1]

\* a fresh allocation of the given kind; text is the id of the text buffer
\* the instance points to (0: none)
alloc(h, kind, text) ==
    [objs |-> h.objs \cup {[id |-> h.next, kind |-> kind, text |-> text]},
     next |-> h.next + 1]

\* bam_hdr_destroy: releases the instance and the text buffer it points to
bam_hdr_destroy(h, id) ==
    LET texts == {o.text : o \in {x \in h.objs : x.id = id}}
    IN [h EXCEPT !.objs = {o \in @ : o.id # id /\ o.id \notin texts}]

----------------------------------------------------------------------------
(* SAMHeaderView *)

NullView == [inner |-> 0, owned |-> FALSE]

SAMHeaderView_new(inner) == [inner |-> inner, owned |-> TRUE]

----------------------------------------------------------------------------
(* The output sink (htsFile) as the native library sees it *)

\* state: "absent" (never opened), "open", "closed"; tries: calls of hts_open;
\* opens: calls of hts_open that returned a handle; closes: calls of hts_close;
\* log: the write calls made on the handle, in order, with their results
NoSink == [state |-> "absent", tries |-> 0, opens |-> 0, closes |-> 0, log |-> <<>>]

\* hts_open as it would be without the null check
hts_open_unchecked(s, opened) ==
    IF opened
    THEN [res |-> Ok, sink |-> [s EXCEPT !.state = "open", !.tries = @ + 1, !.opens = @ + 1]]
    ELSE [res |-> Ok, sink |-> [s EXCEPT !.tries = @ + 1]]

\* hts_open wrapper: a null result is Err(IOError) and opens nothing
hts_open(s, opened) ==
    IF opened
    THEN [res |-> Ok, sink |-> [s EXCEPT !.state = "open", !.tries = @ + 1, !.opens = @ + 1]]
    ELSE [res |-> IOError, sink |-> [s EXCEPT !.tries = @ + 1]]

sam_hdr_write(s, ret) ==
    [s EXCEPT !.log = Append(@, [op |-> "hdr", rec |-> 0, idx |-> 0,
                                  ret |-> ret, res |-> "ignored"])]

hts_close(s) == [s EXCEPT !.state = "closed", !.closes = @ + 1]

----------------------------------------------------------------------------
(* SAMWriter *)

NoWriter == [live |-> FALSE, header |-> NullView]

\* new as it would be if the view were put over the header instance
\* allocated last (the one the template came from) instead of a parsed copy
new_borrows_header(s, h, opened, hret) ==
    LET o == hts_open(s, opened)
        header_record == h.next - 1
    IN IF o.res # Ok
       THEN [res |-> IOError, sink |-> o.sink, heap |-> h, writer |-> NoWriter]
       ELSE [res |-> Ok,
             sink |-> sam_hdr_write(o.sink, hret),
             heap |-> h,
             writer |-> [live |-> TRUE, header |-> SAMHeaderView_new(header_record)]]

\* SAMWriter::new: open the sink, build the native header from the header
\* text, write it, return the writer.  The result of sam_hdr_write is dropped.
new(s, h, opened, hret) ==
    LET o == hts_open(s, opened)
        h1 == alloc(h, "text", 0)
        h2 == alloc(h1, "bam_hdr_t", h.next)
        header_record == h1.next
    IN IF o.res # Ok
       THEN [res |-> IOError, sink |-> o.sink, heap |-> h, writer |-> NoWriter]
       ELSE [res |-> Ok,
             sink |-> sam_hdr_write(o.sink, hret),
             heap |-> h2,
             writer |-> [live |-> TRUE, header |-> SAMHeaderView_new(header_record)]]

\* SAMWriter::from_path
from_path(path, s, h, opened, hret) ==
    IF path # NonText
    THEN new(s, h, opened, hret)
    ELSE [res |-> IOError, sink |-> s, heap |-> h, writer |-> NoWriter]

\* SAMWriter::from_stdout
from_stdout(s, h, opened, hret) == new(s, h, opened, hret)

\* the Result of SAMWriter::write for a result ret of sam_write1
write_result(ret) == IF ret = -1 THEN WriteError ELSE Ok

\* write as it would be if each record were preceded by the header
write_with_header(s, rec, idx, ret) ==
    LET s1 == sam_hdr_write(s, 0)
    IN [s1 EXCEPT !.log = Append(@, [op |-> "rec", rec |-> rec, idx |-> idx,
                                      ret |-> ret, res |-> write_result(ret)])]

\* write as it would be if the record were put in front of the records
\* already written
write_out_of_order(s, rec, idx, ret) ==
    LET e == [op |-> "rec", rec |-> rec, idx |-> idx,
              ret |-> ret, res |-> write_result(ret)]
    IN [s EXCEPT !.log = IF @ = <<>> THEN <<e>> ELSE <<Head(@), e>> \o Tail(@)]

\* SAMWriter::write: one sam_write1 call on the sink
write(s, rec, idx, ret) ==
    [s EXCEPT !.log = Append(@, [op |-> "rec", rec |-> rec, idx |-> idx,
                                  ret |-> ret, res |-> write_result(ret)])]

\* drop as it would be without the hts_close call
drop_without_close(s) == s

\* Drop for SAMWriter
drop(s) == hts_close(s)

----------------------------------------------------------------------------
(* State *)

VARIABLES
    entry,       \* "pipeline": from_bam_with_filter runs; "direct": a client uses the writer API
    pc,          \* position of the caller
    bamfile,     \* input descriptor
    samfile,     \* output descriptor (direct: the path given to the writer API)
    input,       \* what bam_reader.records() yields, in order
    bam_reader,  \* the input stream
    pos,         \* number of items taken from bam_reader.records()
    sam_writer,  \* the SAMWriter value
    sink,        \* the output sink
    heap,        \* native header allocations
    fcalls,      \* the calls of the predicate f so far: record index and result
    result       \* the value returned to the caller

vars == <<entry, pc, bamfile, samfile, input, bam_reader, pos,
          sam_writer, sink, heap, fcalls, result>>

NoReader == [state |-> "none", via |-> "none", header |-> 0]

Init ==
    /\ entry \in {"pipeline", "direct"}
    /\ pc = "start"
    /\ \E n \in 0..MaxLen :
          input \in [1..n -> Items]
    /\ IF entry = "direct"
       THEN bamfile = Stdio /\ samfile \in OutPaths \cup {NonText} /\ input = <<>>
       ELSE bamfile \in InPaths /\ samfile \in OutPaths
    /\ bam_reader = NoReader
    /\ pos = 0
    /\ sam_writer = NoWriter
    /\ sink = NoSink
    /\ heap = EmptyHeap
    /\ fcalls = <<>>
    /\ result = "none"

----------------------------------------------------------------------------
(* from_bam_with_filter *)

\* Drop for bam::Reader: the stream is closed and the header it owns released
drop_Reader(r, h) ==
    IF r.state = "open"
    THEN [reader |-> [r EXCEPT !.state = "dropped"], heap |-> bam_hdr_destroy(h, r.header)]
    ELSE [reader |-> r, heap |-> h]

\* return from from_bam_with_filter with `res`: the locals go out of scope in
\* reverse declaration order (sam_writer, header, bam_reader)
Return(res, w, s, h) ==
    /\ result' = res
    /\ pc' = "done"
    /\ sam_writer' = NoWriter
    /\ sink' = IF w.live THEN drop(s) ELSE s
    /\ bam_reader' = drop_Reader(bam_reader, h).reader
    /\ heap' = drop_Reader(bam_reader, h).heap

\* lines 120-131: the constructor of bam::Reader chosen for the descriptor
Reader_open(path) == IF path # Stdio THEN "from_path" ELSE "from_stdin"

\* OpenInput as it would be if the output were opened before the input
\* is known to be readable
OpenInput_sink_first ==
    /\ entry = "pipeline" /\ pc = "start"
    /\ \E opened \in BOOLEAN :
          IF opened
          THEN /\ bam_reader' = [state |-> "open", via |-> Reader_open(bamfile),
                                 header |-> heap.next]
               /\ heap' = alloc(heap, "bam_hdr_t", 0)
               /\ pc' = "open_writer"
               /\ UNCHANGED <<sam_writer, sink, result>>
          ELSE /\ bam_reader' = [state |-> "failed", via |-> Reader_open(bamfile),
                                 header |-> 0]
               /\ result' = IOError
               /\ pc' = "done"
               /\ sink' = drop(hts_open(sink, TRUE).sink)
               /\ UNCHANGED <<heap, sam_writer>>
    /\ UNCHANGED <<entry, bamfile, samfile, input, pos, fcalls>>

\* lines 120-131: Reader::from_path / Reader::from_stdin
OpenInput ==
    /\ entry = "pipeline" /\ pc = "start"
    /\ \E opened \in BOOLEAN :
          IF opened
          THEN /\ bam_reader' = [state |-> "open", via |-> Reader_open(bamfile),
                                 header |-> heap.next]
               /\ heap' = alloc(heap, "bam_hdr_t", 0)
               /\ pc' = "open_writer"
               /\ UNCHANGED <<sam_writer, sink, result>>
          ELSE /\ bam_reader' = [state |-> "failed", via |-> Reader_open(bamfile),
                                 header |-> 0]
               /\ result' = IOError
               /\ pc' = "done"
               /\ UNCHANGED <<heap, sam_writer, sink>>
    /\ UNCHANGED <<entry, bamfile, samfile, input, pos, fcalls>>

\* OpenWriter as it would be if the Err of the writer's constructor were
\* not propagated
OpenWriter_ignores_failure ==
    /\ entry = "pipeline" /\ pc = "open_writer"
    /\ \E opened \in BOOLEAN, hret \in HdrRets :
          LET r == IF samfile # Stdio
                   THEN from_path(samfile, sink, heap, opened, hret)
                   ELSE from_stdout(sink, heap, opened, hret)
          IN /\ sam_writer' = r.writer
             /\ sink' = r.sink
             /\ heap' = r.heap
             /\ pc' = "next"
             /\ UNCHANGED <<bam_reader, result>>
    /\ UNCHANGED <<entry, bamfile, samfile, input, pos, fcalls>>

\* lines 132-137: Header::from_template, SAMWriter::from_path / from_stdout
OpenWriter ==
    /\ entry = "pipeline" /\ pc = "open_writer"
    /\ \E opened \in BOOLEAN, hret \in HdrRets :
          LET r == IF samfile # Stdio
                   THEN from_path(samfile, sink, heap, opened, hret)
                   ELSE from_stdout(sink, heap, opened, hret)
          IN IF r.res = Ok
             THEN /\ sam_writer' = r.writer
                  /\ sink' = r.sink
                  /\ heap' = r.heap
                  /\ pc' = "next"
                  /\ UNCHANGED <<bam_reader, result>>
             ELSE Return(IOError, r.writer, r.sink, r.heap)
    /\ UNCHANGED <<entry, bamfile, samfile, input, pos, fcalls>>

\* NextRecord as it would be if an item that fails to decode were skipped
NextRecord_skips_errors ==
    /\ entry = "pipeline" /\ pc = "next"
    /\ IF pos = Len(input)
       THEN /\ Return(Ok, sam_writer, sink, heap)
            /\ UNCHANGED pos
       ELSE /\ pos' = pos + 1
            /\ pc' = IF input[pos + 1] = DecodeErr THEN "next" ELSE "filter"
            /\ UNCHANGED <<bam_reader, sam_writer, sink, heap, result>>
    /\ UNCHANGED <<entry, bamfile, samfile, input, fcalls>>

\* NextRecord as it would be if the end of the input were waited on instead
\* of ending the loop
NextRecord_blocks_at_end ==
    /\ entry = "pipeline" /\ pc = "next"
    /\ pos < Len(input)
    /\ IF input[pos + 1] = DecodeErr
       THEN /\ Return(IOError, sam_writer, sink, heap)
            /\ pos' = pos + 1
       ELSE /\ pos' = pos + 1
            /\ pc' = "filter"
            /\ UNCHANGED <<bam_reader, sam_writer, sink, heap, result>>
    /\ UNCHANGED <<entry, bamfile, samfile, input, fcalls>>

\* lines 138-142 and 151: the next item of bam_reader.records()
NextRecord ==
    /\ entry = "pipeline" /\ pc = "next"
    /\ IF pos = Len(input)
       THEN /\ Return(Ok, sam_writer, sink, heap)
            /\ UNCHANGED pos
       ELSE IF input[pos + 1] = DecodeErr
       THEN /\ Return(IOError, sam_writer, sink, heap)
            /\ pos' = pos + 1
       ELSE /\ pos' = pos + 1
            /\ pc' = "filter"
            /\ UNCHANGED <<bam_reader, sam_writer, sink, heap, result>>
    /\ UNCHANGED <<entry, bamfile, samfile, input, fcalls>>

\* match_arm as it would be if Some(true) skipped the record
match_arm_keep_skips(out) ==
    CASE out = Stop -> "return"
      [] out = Discard -> "next"
      [] out = Keep -> "next"

\* match_arm as it would be if None skipped the record and went on
match_arm_stop_continues(out) ==
    CASE out = Stop -> "next"
      [] out = Discard -> "next"
      [] out = Keep -> "write"

\* match_arm as it would be if Some(false) wrote the record
match_arm_discard_writes(out) ==
    CASE out = Stop -> "return"
      [] out = Discard -> "write"
      [] out = Keep -> "write"

\* match_arm as it would be if None wrote the record like Some(true)
match_arm_stop_writes(out) ==
    CASE out = Stop -> "write"
      [] out = Discard -> "next"
      [] out = Keep -> "write"

\* lines 143-149: the arm of `match f(&parsed)` taken for a result of f
match_arm(out) ==
    CASE out = Stop -> "return"
      [] out = Discard -> "next"
      [] out = Keep -> "write"

\* ApplyFilter as it would be if f were evaluated once to test for None and
\* once more to choose between writing and skipping
ApplyFilter_calls_twice ==
    /\ entry = "pipeline" /\ pc = "filter"
    /\ \E out \in Outcomes, again \in Outcomes :
          IF match_arm(out) = "return"
          THEN /\ fcalls' = Append(fcalls, [idx |-> pos, out |-> out])
               /\ Return(Ok, sam_writer, sink, heap)
          ELSE /\ fcalls' = fcalls \o <<[idx |-> pos, out |-> out],
                                        [idx |-> pos, out |-> again]>>
               /\ pc' = IF again = Keep THEN "write" ELSE "next"
               /\ UNCHANGED <<bam_reader, sam_writer, sink, heap, result>>
    /\ UNCHANGED <<entry, bamfile, samfile, input, pos>>

\* lines 143-146: match f(&parsed)
ApplyFilter ==
    /\ entry = "pipeline" /\ pc = "filter"
    /\ \E out \in Outcomes :
          /\ fcalls' = Append(fcalls, [idx |-> pos, out |-> out])
          /\ IF match_arm(out) = "return"
             THEN Return(Ok, sam_writer, sink, heap)
             ELSE /\ pc' = match_arm(out)
                  /\ UNCHANGED <<bam_reader, sam_writer, sink, heap, result>>
    /\ UNCHANGED <<entry, bamfile, samfile, input, pos>>

\* WriteRecord as it would be if the Err of write were ignored
WriteRecord_ignores_error ==
    /\ entry = "pipeline" /\ pc = "write"
    /\ \E ret \in Rets :
          /\ sink' = write(sink, input[pos], pos, ret)
          /\ pc' = "next"
          /\ UNCHANGED <<bam_reader, sam_writer, heap, result>>
    /\ UNCHANGED <<entry, bamfile, samfile, input, pos, fcalls>>

\* lines 146-148: sam_writer.write(&parsed)
WriteRecord ==
    /\ entry = "pipeline" /\ pc = "write"
    /\ \E ret \in Rets :
          LET s == write(sink, input[pos], pos, ret)
          IN IF write_result(ret) # Ok
             THEN Return(IOError, sam_writer, s, heap)
             ELSE /\ sink' = s
                  /\ pc' = "next"
                  /\ UNCHANGED <<bam_reader, sam_writer, heap, result>>
    /\ UNCHANGED <<entry, bamfile, samfile, input, pos, fcalls>>

----------------------------------------------------------------------------
(* A client of the public writer API *)

\* SAMWriter::from_path(path, &header) or SAMWriter::from_stdout(&header)
ClientOpen ==
    /\ entry = "direct" /\ pc = "start"
    /\ \E opened \in BOOLEAN, hret \in HdrRets :
          LET r == IF samfile # Stdio
                   THEN from_path(samfile, sink, heap, opened, hret)
                   ELSE from_stdout(sink, heap, opened, hret)
          IN /\ sam_writer' = r.writer
             /\ sink' = r.sink
             /\ heap' = r.heap
             /\ result' = r.res
             /\ pc' = IF r.res = Ok THEN "writing" ELSE "done"
    /\ UNCHANGED <<entry, bamfile, samfile, input, bam_reader, pos, fcalls>>

\* sam_writer.write(&record)
ClientWrite ==
    /\ entry = "direct" /\ pc = "writing"
    /\ Len(sink.log) <= MaxWrites
    /\ \E rec \in Records, ret \in Rets :
          /\ sink' = write(sink, rec, Len(sink.log), ret)
          /\ result' = write_result(ret)
    /\ UNCHANGED <<entry, pc, bamfile, samfile, input, bam_reader, pos,
                   sam_writer, heap, fcalls>>

\* the writer goes out of scope
ClientDrop ==
    /\ entry = "direct" /\ pc = "writing"
    /\ sink' = drop(sink)
    /\ sam_writer' = NoWriter
    /\ pc' = "done"
    /\ UNCHANGED <<entry, bamfile, samfile, input, bam_reader, pos,
                   heap, fcalls, result>>

----------------------------------------------------------------------------

Next ==
    \/ OpenInput
    \/ OpenWriter
    \/ NextRecord
    \/ ApplyFilter
    \/ WriteRecord
    \/ ClientOpen
    \/ ClientWrite
    \/ ClientDrop

Spec == Init /\ [][Next]_vars

\* the steps of from_bam_with_filter
Pipeline ==
    \/ OpenInput
    \/ OpenWriter
    \/ NextRecord
    \/ ApplyFilter
    \/ WriteRecord

\* from_bam_with_filter runs synchronously in the calling thread: every call
\* it makes is a blocking call that returns, so a step that can be taken is
\* taken.  The client of the writer API is under no such obligation.
FairSpec == Init /\ [][Next]_vars /\ WF_vars(Pipeline)

----------------------------------------------------------------------------
(* Properties *)

\* the sam_write1 calls made on the sink, in order
written == SelectSeq(sink.log, LAMBDA e : e.op = "rec")

\* the records f returned Some(true) for, in call order
kept == SelectSeq(fcalls, LAMBDA c : c.out = Keep)

\* the input holds no item that fails to decode
AllDecoded == \A i \in 1..Len(input) : input[i] # DecodeErr

\* no sam_write1 call failed
NoWriteFailure == \A i \in 1..Len(written) : written[i].ret >= 0

\* the pipeline opened its input and its writer
Streamed ==
    entry = "pipeline" /\ bam_reader.state \in {"open", "dropped"} /\ sink.opens = 1

\* C1: once SAMWriter::new has returned a writer, the sink has received
\* exactly one header write, it is the first operation on the sink (made
\* inside new, before any record), and every later operation on the sink is
\* a record write; without a writer nothing is written.  "Written" is the
\* sam_hdr_write call; what becomes of its result is C10.
HeaderWrittenOnceFirst ==
    /\ sink.state = "absent" => sink.log = <<>>
    /\ sink.state # "absent" =>
          /\ Len(sink.log) >= 1
          /\ sink.log[1].op = "hdr"
          /\ \A i \in 2..Len(sink.log) : sink.log[i].op = "rec"

\* C1 witness: a writer that wrote two records after its header was dropped
HeaderThenRecordsThenDrop ==
    sink.state = "closed" /\ Len(sink.log) >= 3 /\ Len(written) >= 2

\* C2: when the input decodes without error, f returns Some(true) for every
\* record and no write fails, the pipeline returns Ok and the records in
\* the sink are the input records, in input order
AlwaysKeepCopiesInput ==
    (/\ pc = "done"
     /\ Streamed
     /\ AllDecoded
     /\ \A c \in 1..Len(fcalls) : fcalls[c].out = Keep
     /\ NoWriteFailure)
    => /\ result = Ok
       /\ Len(written) = Len(input)
       /\ \A i \in 1..Len(written) : written[i].rec = input[i] /\ written[i].idx = i

\* C2 witness: a finished always-keep run over two different records
AlwaysKeepRunDone ==
    /\ pc = "done" /\ Streamed /\ AllDecoded /\ NoWriteFailure
    /\ Len(input) >= 2 /\ input[1] # input[2]
    /\ Len(fcalls) = Len(input)
    /\ \A c \in 1..Len(fcalls) : fcalls[c].out = Keep
    /\ result = Ok

\* C3: when f first returns None at record k and the writes made before
\* succeeded, the pipeline has returned Ok and the sink holds exactly the
\* records before k that f returned Some(true) for
StopCompletes ==
    \A j \in 1..Len(fcalls) :
        (/\ fcalls[j].out = Stop
         /\ \A i \in 1..(j - 1) : fcalls[i].out # Stop
         /\ NoWriteFailure)
        => /\ pc = "done"
           /\ result = Ok
           /\ Len(written) = Len(kept)
           /\ \A i \in 1..Len(written) :
                 /\ written[i].idx = kept[i].idx
                 /\ written[i].idx < fcalls[j].idx
                 /\ written[i].rec = input[written[i].idx]

\* C3 witness: f returned None after a record was written, with input left unread
StoppedWithInputLeft ==
    /\ pc = "done" /\ result = Ok
    /\ Len(fcalls) >= 2 /\ fcalls[Len(fcalls)].out = Stop
    /\ Len(written) >= 1 /\ NoWriteFailure
    /\ pos < Len(input)

\* C4: when f returns Some(false) for every record, write is never called;
\* when the input also decodes without error, the pipeline returns Ok, f
\* was applied to every record, and the only operation made on the sink is
\* the header write
AllDiscardWritesNothing ==
    /\ (entry = "pipeline" /\ \A c \in 1..Len(fcalls) : fcalls[c].out = Discard)
       => written = <<>>
    /\ (/\ pc = "done"
        /\ Streamed
        /\ AllDecoded
        /\ \A c \in 1..Len(fcalls) : fcalls[c].out = Discard)
       => /\ result = Ok
          /\ Len(fcalls) = Len(input)
          /\ Len(sink.log) = 1
          /\ sink.log[1].op = "hdr"

\* C4 witness: a finished run that discarded two or more records
AllDiscardRunDone ==
    /\ pc = "done" /\ Streamed /\ AllDecoded
    /\ Len(input) >= 2 /\ Len(fcalls) = Len(input)
    /\ \A c \in 1..Len(fcalls) : fcalls[c].out = Discard
    /\ result = Ok /\ Len(sink.log) = 1

\* C5: the records written are a subsequence of the input: their input
\* indices are strictly increasing (so none is written twice or out of
\* order), each is the input record of that index, and f returned
\* Some(true) for each
WrittenIsKeptSubsequence ==
    entry = "pipeline" =>
        /\ \A i, j \in 1..Len(written) : i < j => written[i].idx < written[j].idx
        /\ \A i \in 1..Len(written) :
              /\ written[i].idx \in 1..Len(input)
              /\ written[i].rec = input[written[i].idx]
              /\ \E c \in 1..Len(fcalls) :
                    fcalls[c].idx = written[i].idx /\ fcalls[c].out = Keep

\* C5 witness: two records written with a discarded record between them
TwoWrittenAroundDiscard ==
    /\ entry = "pipeline" /\ Len(written) >= 2
    /\ written[2].idx > written[1].idx + 1

\* C6: when opening the input fails, the pipeline has returned IOError, no
\* hts_open call was made for the output, no writer exists, nothing was
\* written or allocated, and f was never called
InputOpenFailureHasNoEffect ==
    bam_reader.state = "failed" =>
        /\ pc = "done"
        /\ result = IOError
        /\ sink = NoSink
        /\ sam_writer = NoWriter
        /\ heap = EmptyHeap
        /\ fcalls = <<>>
        /\ pos = 0

\* C6 witness: standard input could not be opened
StdinOpenFailed ==
    bam_reader.state = "failed" /\ bam_reader.via = "from_stdin" /\ result = IOError

\* C7: write returns WriteError exactly when sam_write1 returned a negative
\* result
WriteErrorOnAnyNegative ==
    \A i \in 1..Len(written) :
        /\ written[i].ret < 0 => written[i].res = WriteError
        /\ written[i].res = Ok => written[i].ret >= 0

\* C8: the sink is open exactly while its writer lives, hts_close is called
\* at most once, and once the caller is done a sink that was opened has been
\* closed exactly once
SinkClosedExactlyOnce ==
    /\ sink.closes <= 1
    /\ sam_writer.live <=> sink.state = "open"
    /\ sink.state = "closed" <=> sink.closes = 1
    /\ (pc = "done" /\ sink.opens >= 1) => (sink.state = "closed" /\ sink.closes = 1)

\* C8 witness: the pipeline ended on a failed write after a successful one
ClosedAfterFailedLastWrite ==
    /\ pc = "done" /\ entry = "pipeline" /\ sink.closes = 1
    /\ Len(written) >= 2
    /\ written[Len(written)].res = WriteError

\* C9: once the caller is done, no native header instance is still allocated
AllHeadersReleased ==
    pc = "done" => heap.objs = {}

\* C10: a writer exists only if the header write of its open call succeeded
NoWriterAfterFailedHeaderWrite ==
    sam_writer.live => (Len(sink.log) >= 1 /\ sink.log[1].ret >= 0)

\* the last item taken from the input failed to decode
DecodeFailed == entry = "pipeline" /\ pos >= 1 /\ input[pos] = DecodeErr

\* the last call of f returned None
Stopped == Len(fcalls) >= 1 /\ fcalls[Len(fcalls)].out = Stop

\* Completed: the pipeline streamed to the end of the input or to a None of
\* f, and every record it kept was written successfully
Completed ==
    /\ pc = "done"
    /\ Streamed
    /\ ~DecodeFailed
    /\ NoWriteFailure
    /\ Stopped \/ pos = Len(input)

\* C11: a finished pipeline has returned Ok exactly when it ended in
\* Completed, and IOError otherwise
OkIffCompleted ==
    (entry = "pipeline" /\ pc = "done") =>
        /\ result = Ok <=> Completed
        /\ ~Completed => result = IOError

\* C12: an item that fails to decode is the last item taken from the input:
\* the pipeline has returned IOError, f was applied only to earlier records
\* and only earlier records were written
DecodeFailureAborts ==
    entry = "pipeline" =>
        \A k \in 1..pos :
            input[k] = DecodeErr =>
                /\ k = pos
                /\ pc = "done"
                /\ result = IOError
                /\ \A c \in 1..Len(fcalls) : fcalls[c].idx < k
                /\ \A i \in 1..Len(written) : written[i].idx < k

\* C12 witness: decoding failed after a record was written, with input left
DecodeFailedMidStream ==
    /\ DecodeFailed /\ pc = "done" /\ result = IOError
    /\ Len(written) >= 1
    /\ pos < Len(input)

\* C13: a write that returned WriteError is the last operation on the sink:
\* the pipeline has returned IOError, the failed record is the last one
\* taken from the input and the last one f was applied to, and the records
\* kept before it are still the records in the sink, in order
WriteErrorAborts ==
    entry = "pipeline" =>
        \A i \in 1..Len(written) :
            written[i].res = WriteError =>
                /\ i = Len(written)
                /\ pc = "done"
                /\ result = IOError
                /\ pos = written[i].idx
                /\ fcalls[Len(fcalls)].idx = written[i].idx
                /\ Len(sink.log) = Len(written) + 1
                /\ Len(written) = Len(kept)
                /\ \A j \in 1..Len(written) :
                      /\ written[j].idx = kept[j].idx
                      /\ written[j].rec = input[written[j].idx]

\* C13 witness: the second write failed with input left unread
WriteFailedWithInputLeft ==
    /\ entry = "pipeline" /\ pc = "done" /\ result = IOError
    /\ Len(written) = 2
    /\ written[1].res = Ok /\ written[2].res = WriteError
    /\ pos < Len(input)

\* the pipeline opened its input and then failed to open its writer
WriterOpenFailed ==
    /\ entry = "pipeline"
    /\ bam_reader.state \in {"open", "dropped"}
    /\ sink.tries >= 1
    /\ sink.opens = 0

StopIsImmediate ==
    /\ [](Stopped =>
            /\ pc = "done"
            /\ result = Ok
            /\ pos = fcalls[Len(fcalls)].idx
            /\ sink.state = "closed"
            /\ \A i \in 1..Len(written) : written[i].idx < pos)
    /\ [][(Stopped' => (written' = written /\ pos' = pos))
          /\ (Stopped => (fcalls' = fcalls /\ sink' = sink))]_vars

\* C15 witness: f returned None on the second record of a longer input
StoppedOnSecondRecord ==
    /\ Stopped /\ pc = "done"
    /\ fcalls[Len(fcalls)].idx = 2
    /\ pos = 2 /\ Len(input) > 2

\* C16: when hts_open returns null, or from_path is given a path that is
\* not text, the open has returned IOError and nothing else was done: no
\* header allocated or written, no writer, no hts_close call (and for the
\* path that is not text, no hts_open call either)
SinkOpenFailureDoesNothing ==
    /\ (sink.tries >= 1 /\ sink.opens = 0) =>
          /\ pc = "done"
          /\ result = IOError
          /\ sink = [NoSink EXCEPT !.tries = 1]
          /\ sam_writer = NoWriter
          /\ heap.next = IF entry = "pipeline" THEN EmptyHeap.next + 1 ELSE EmptyHeap.next
          /\ \A o \in heap.objs : o.kind # "text"
    /\ (entry = "direct" /\ samfile = NonText /\ pc # "start") =>
          /\ pc = "done"
          /\ result = IOError
          /\ sink = NoSink
          /\ sam_writer = NoWriter
          /\ heap = EmptyHeap

\* C16 witness: hts_open returned null for a path given to from_path
HtsOpenReturnedNull ==
    /\ entry = "direct" /\ samfile = "out.sam" /\ pc = "done"
    /\ sink.tries = 1 /\ sink.opens = 0
    /\ result = IOError

\* C17: a started pipeline eventually returns, with Ok (Completed) or
\* IOError (Aborted); after the return no step is taken at all; and a run
\* that ended with no None from f, no decode failure and no write failure
\* took the whole input and returned Ok
PipelineTerminates ==
    /\ (entry = "pipeline") ~> (pc = "done" /\ result \in {Ok, IOError})
    /\ [][pc # "done"]_vars
    /\ []((/\ pc = "done"
           /\ Streamed
           /\ ~Stopped
           /\ ~DecodeFailed
           /\ NoWriteFailure)
          => (result = Ok /\ pos = Len(input) /\ Len(fcalls) = Len(input)))

\* C17 witness: the input was exhausted after one record was kept and
\* another discarded
ExhaustedAfterKeepAndDiscard ==
    /\ entry = "pipeline" /\ pc = "done" /\ result = Ok
    /\ ~Stopped /\ pos = Len(input)
    /\ Len(fcalls) = 2 /\ Len(written) = 1 /\ NoWriteFailure

\* C18: a live writer has its one sink handle open (opened once, not
\* closed) and one header view, which is owning and refers to an allocated
\* bam_hdr_t that is not the input stream's header; and the instance a new
\* writer refers to did not exist before the open call that made the writer
WriterOwnsFreshHeader ==
    /\ [](sam_writer.live =>
            /\ sink.state = "open" /\ sink.opens = 1 /\ sink.closes = 0
            /\ sam_writer.header.owned
            /\ Cardinality({o \in heap.objs : o.id = sam_writer.header.inner
                                              /\ o.kind = "bam_hdr_t"}) = 1
            /\ sam_writer.header.inner # bam_reader.header)
    /\ [][(~sam_writer.live /\ sam_writer'.live) =>
            /\ sam_writer'.header.inner >= heap.next
            /\ sam_writer'.header.inner \notin {o.id : o \in heap.objs}]_vars

\* C18 witness: a live writer beside an open input stream, each with its
\* own header instance
WriterBesideOpenReader ==
    /\ sam_writer.live /\ bam_reader.state = "open"
    /\ bam_reader.header \in {o.id : o \in heap.objs}
    /\ sam_writer.header.inner \in {o.id : o \in heap.objs}
    /\ Cardinality(heap.objs) = 3

\* C19: the c-th call of f is on the c-th input record, which decoded
\* successfully; f has been called on every record taken so far except one
\* that failed to decode or is about to be filtered; no call follows a None
\* or a kept record whose write returned WriteError; and a call is made only
\* after the writer was opened and the header written
PredicateOncePerRecord ==
    entry = "pipeline" =>
        /\ \A c \in 1..Len(fcalls) :
              /\ fcalls[c].idx = c
              /\ c <= Len(input)
              /\ input[c] # DecodeErr
        /\ Len(fcalls) = IF pc = "filter" \/ DecodeFailed THEN pos - 1 ELSE pos
        /\ \A c \in 1..(Len(fcalls) - 1) :
              /\ fcalls[c].out # Stop
              /\ fcalls[c].out = Keep =>
                    \E i \in 1..Len(written) :
                        written[i].idx = c /\ written[i].res = Ok
        /\ Len(fcalls) >= 1 =>
              /\ sink.opens = 1
              /\ Len(sink.log) >= 1
              /\ sink.log[1].op = "hdr"

\* C19 witness: three calls of f, the run ending on the failed write of the
\* third record
ThreeCallsEndingOnWriteError ==
    /\ entry = "pipeline" /\ pc = "done"
    /\ Len(fcalls) = 3
    /\ fcalls[1].out = Discard /\ fcalls[2].out = Keep /\ fcalls[3].out = Keep
    /\ written[Len(written)].idx = 3
    /\ written[Len(written)].res = WriteError

====
